---- MODULE Spec2Model ----
(***************************************************************************)
(* Model of the differential-privacy teaching notebooks                    *)
(* (02_Summary_Statistics.ipynb: summary-statistics demos followed by the  *)
(* randomized-response notebook).                                          *)
(*                                                                         *)
(* Real numbers are modelled as integers in units of 1/Scale (data values) *)
(* and of 1/100 (the Epsilon and Delta sliders).  Python values whose type *)
(* matters (bool against numpy integer) are records [type, val].           *)
(***************************************************************************)
EXTENDS Integers, Sequences, FiniteSets, TLC

VARIABLES
    answers_true,            \* the respondents' true answers (line 452)
    answers_survey_rr_true,  \* responses collected by the survey (line 487)
    coins,                   \* coin_toss drawn in each survey_rr_true call
    rr_pc,                   \* position in the randomized-response notebook
    rr_mean,                 \* value of np.mean(answers_survey_rr_true)
    calls_2flip,             \* the last call of survey_rr_2flip, if any
    data_normal,             \* the clipped dataset of the demos (lines 92, 292)
    widget,                  \* the slider setting of the last callback
    calls,                   \* the mechanism calls made by the last callback
    hist_pc,                 \* position inside plthist
    mech,                    \* what dps.dp_hist returned to plthist
    dp_hist_counts,          \* plthist's local dp_hist_counts
    bin_edges,               \* plthist's local bin_edges
    bin_edges_,              \* plthist's local bin_edges_ (left edges)
    width_,                  \* plthist's local width_
    sample_size_list,        \* the experiment's list of sample sizes (line 212)
    epsilon_list,            \* the experiment's list of epsilons (line 213)
    delta_list,              \* the experiment's list of deltas (line 214)
    expt_result,             \* the rows appended so far (line 215)
    expt_idx,                \* positions of the three for loops (lines 217-219)
    expt_pc,                 \* position inside the experiment cell
    mean_dp_exp_df           \* the table built from expt_result (line 229)

rr_vars == <<answers_true, answers_survey_rr_true, coins, rr_pc, rr_mean,
             calls_2flip>>

demo_vars == <<data_normal, widget, calls>>

hist_vars == <<hist_pc, mech, dp_hist_counts, bin_edges, bin_edges_, width_>>

expt_state == <<sample_size_list, epsilon_list, delta_list, expt_result,
                expt_idx, expt_pc, mean_dp_exp_df>>

vars == <<rr_vars, demo_vars, hist_vars, expt_state>>

(***************************************************************************)
(* Bounds                                                                  *)
(***************************************************************************)
\* population size of the survey (N = 10 in the notebook, line 450)
N == 4

\* length of the demo dataset (max_sample_size = 100 in the notebook, line 85)
max_sample_size == 6

\* data values are multiples of 1/Scale; Scale stands for 1.0
Scale == 2

\* number of histogram bins (num_bins = 10 in the notebook, line 357)
num_bins == 3

\* noisy bin counts returned by the mechanism lie in -MaxNoisy..MaxNoisy
MaxNoisy == 2

(***************************************************************************)
(* Python values                                                           *)
(***************************************************************************)
True == [type |-> "bool", val |-> 1]

False == [type |-> "bool", val |-> 0]

\* an element drawn by np.random.choice([0,1]) is a numpy integer
np_int == [v \in {0, 1} |-> [type |-> "int64", val |-> v]]

\* the two faces of np.random.choice([0,1], p=[.5,.5])
coin_faces == {0, 1}

RECURSIVE SumSeq(_)
SumSeq(s) == IF s = <<>> THEN 0 ELSE Head(s) + SumSeq(Tail(s))

\* the sum of the array where its mean is meant
np_mean_as_sum(a) == [num |-> SumSeq(a), den |-> 1]

\* np.mean of an array, as the fraction num/den
np_mean(a) == [num |-> SumSeq(a), den |-> Len(a)]

\* the numeric value numpy gives each entry (True counts 1, False 0)
np_asarray(list) == [j \in 1..Len(list) |-> list[j].val]

(***************************************************************************)
(* Parts of the notebooks a specification leaves out stay in these states  *)
(***************************************************************************)
RRIdle ==
    /\ answers_true = <<>>
    /\ answers_survey_rr_true = <<>>
    /\ coins = <<>>
    /\ rr_pc = "off"
    /\ rr_mean = [num |-> 0, den |-> 0]
    /\ calls_2flip = <<>>

DemoIdle ==
    /\ data_normal = <<>>
    /\ widget = [demo |-> "none"]
    /\ calls = <<>>

HistIdle ==
    /\ hist_pc = "off"
    /\ mech = [counts |-> <<>>, edges |-> <<>>]
    /\ dp_hist_counts = <<>>
    /\ bin_edges = <<>>
    /\ bin_edges_ = <<>>
    /\ width_ = <<>>

ExptIdle ==
    /\ sample_size_list = <<>>
    /\ epsilon_list = <<>>
    /\ delta_list = <<>>
    /\ expt_result = <<>>
    /\ expt_idx = [ss |-> 0, epsilon |-> 0, delta |-> 0]
    /\ expt_pc = "off"
    /\ mean_dp_exp_df = [columns |-> <<>>, data |-> <<>>]

(***************************************************************************)
(* Randomized response                                                     *)
(***************************************************************************)
\* the protocol with the two dictionary entries exchanged
survey_rr_true_swapped(truth, coin_toss) ==
    LET response == (0 :> True) @@ (1 :> truth)
    IN  response[coin_toss]

\* a forced answer of False instead of True
survey_rr_true_forced_false(truth, coin_toss) ==
    LET response == (0 :> truth) @@ (1 :> False)
    IN  response[coin_toss]

survey_rr_true(truth, coin_toss) ==
    LET response == (0 :> truth) @@ (1 :> True)
    IN  response[coin_toss]

\* the 2-flip protocol with the forced answer of the always-true protocol
survey_rr_2flip_always_true(truth, coin_toss, coin_toss2) ==
    LET response == (0 :> truth) @@ (1 :> True)
    IN  response[coin_toss]

\* the inner np.random.choice is evaluated when the dict is built,
\* whatever coin_toss is
survey_rr_2flip(truth, coin_toss, coin_toss2) ==
    LET response == (0 :> truth) @@ (1 :> np_int[coin_toss2])
    IN  response[coin_toss]

(***************************************************************************)
(* The survey as a whole, and its statistics over all coin outcomes        *)
(***************************************************************************)
\* the coin_toss values of one run of the survey over n respondents
CoinVectors(n) == [1..n -> coin_faces]

\* a survey that retains history: each respondent answers from the previous
\* respondent's response instead of the own true answer
survey_all_mut(answers, cv) ==
    [j \in 1..Len(answers) |->
        survey_rr_true(IF j = 1 THEN answers[j]
                       ELSE survey_rr_true(answers[j - 1], cv[j - 1]), cv[j])]

\* [survey_rr_true(t) for t in answers_true] with the coins cv
survey_all(answers, cv) ==
    [j \in 1..Len(answers) |-> survey_rr_true(answers[j], cv[j])]

\* the coin pairs (coin_toss, inner choice) of one run of the 2-flip survey
CoinPairVectors(n) == [1..n -> coin_faces \X coin_faces]

\* [survey_rr_2flip(t) for t in answers_true] with the coin pairs cp
survey_all_2flip(answers, cp) ==
    [j \in 1..Len(answers) |-> survey_rr_2flip(answers[j], cp[j][1], cp[j][2])]

\* the sum of f[x] over x in S, for f with values in 0..max
SumOver(S, f, max) ==
    SumSeq([v \in 1..max |-> v * Cardinality({x \in S : f[x] = v})])

RECURSIVE Pow(_, _)
Pow(b, e) == IF e = 0 THEN 1 ELSE b * Pow(b, e - 1)

\* number of True responses, summed over all equally likely coin vectors
TotalTrue(answers) ==
    LET CV == CoinVectors(Len(answers))
    IN  SumOver(CV, [cv \in CV |-> SumSeq(np_asarray(survey_all(answers, cv)))],
                Len(answers))

TotalTrue2flip(answers) ==
    LET CP == CoinPairVectors(Len(answers))
    IN  SumOver(CP, [cp \in CP |->
                        SumSeq(np_asarray(survey_all_2flip(answers, cp)))],
                Len(answers))

\* number of respondents whose true answer is True
NumTrue(answers) == SumSeq(np_asarray(answers))

\* the populations np.random.choice([True,False], size=n) can produce
Populations == UNION {[1..n -> {True, False}] : n \in 1..N}

RRInit ==
    /\ answers_true \in Populations
    /\ answers_survey_rr_true = <<>>
    /\ coins = <<>>
    /\ rr_pc = "survey"
    /\ rr_mean = [num |-> 0, den |-> 0]
    /\ calls_2flip = <<>>
    /\ DemoIdle
    /\ HistIdle
    /\ ExptIdle

\* one iteration of [survey_rr_true(t) for t in answers_true]
SurveyStep ==
    /\ rr_pc = "survey"
    /\ Len(answers_survey_rr_true) < Len(answers_true)
    /\ \E coin_toss \in coin_faces :
          LET t == answers_true[Len(answers_survey_rr_true) + 1]
          IN  /\ answers_survey_rr_true' =
                    Append(answers_survey_rr_true, survey_rr_true(t, coin_toss))
              /\ coins' = Append(coins, coin_toss)
    /\ UNCHANGED <<answers_true, rr_pc, rr_mean, calls_2flip, demo_vars,
                   hist_vars, expt_state>>

\* the comprehension is exhausted; np.asarray(...) ends the cell
SurveyDone ==
    /\ rr_pc = "survey"
    /\ Len(answers_survey_rr_true) = Len(answers_true)
    /\ rr_pc' = "mean"
    /\ UNCHANGED <<answers_true, answers_survey_rr_true, coins, rr_mean,
                   calls_2flip, demo_vars, hist_vars, expt_state>>

\* the cell np.mean(answers_survey_rr_true)
MeanCell ==
    /\ rr_pc = "mean"
    /\ rr_mean' = np_mean(np_asarray(answers_survey_rr_true))
    /\ rr_pc' = "done"
    /\ UNCHANGED <<answers_true, answers_survey_rr_true, coins, calls_2flip,
                   demo_vars, hist_vars, expt_state>>

\* a call survey_rr_2flip(t) for a respondent t, once it is defined
Call2flip ==
    /\ rr_pc = "done"
    /\ \E j \in 1..Len(answers_true), coin_toss \in coin_faces,
          coin_toss2 \in coin_faces :
          calls_2flip' = << [truth |-> answers_true[j],
                             coin_toss |-> coin_toss,
                             coin_toss2 |-> coin_toss2,
                             ret |-> survey_rr_2flip(answers_true[j],
                                                     coin_toss, coin_toss2)] >>
    /\ UNCHANGED <<answers_true, answers_survey_rr_true, coins, rr_pc, rr_mean,
                   demo_vars, hist_vars, expt_state>>

RRNext == SurveyStep \/ SurveyDone \/ MeanCell \/ Call2flip

SpecRR == RRInit /\ [][RRNext]_vars

(***************************************************************************)
(* Summary-statistics demos: mean, leave-one-out mean, variance            *)
(***************************************************************************)
Min(a, b) == IF a <= b THEN a ELSE b

Max(a, b) == IF a >= b THEN a ELSE b

\* the values np.random.normal can draw, some of them outside [0, 1]
RawValues == (0 - 1)..(Scale + 1)

\* a bug in the clip: only the lower bound is enforced
np_clip_lower_only(a, min, max) ==
    [j \in 1..Len(a) |-> Max(a[j], min)]

\* ndarray.clip(min, max)
np_clip(a, min, max) ==
    [j \in 1..Len(a) |-> Max(Min(a[j], max), min)]

\* the Python slice a[:stop]
slice_to(a, stop) ==
    IF stop >= 0 THEN SubSeq(a, 1, Min(stop, Len(a)))
    ELSE SubSeq(a, 1, Max(Len(a) + stop, 0))

\* slider positions, in hundredths: Epsilon=(0.01,3,0.01) and
\* Delta=(0.01,0.5,0.01); the lowest position and the default value
EpsilonSlider == {1, 100}

DeltaSlider == {1, 10}

\* Sample_size=(1,max_sample_size,5)
SampleSizeSlider == {x \in 1..max_sample_size : (x - 1) % 5 = 0}

\* a call of the external mechanism dps.<fn>(data, epsilon=..., delta=...)
dps_call(fn, data, epsilon, delta) ==
    [fn |-> fn, data |-> data, epsilon |-> epsilon, delta |-> delta]

\* the mechanism calls show_mean makes
show_mean(data, Epsilon, Delta, Sample_size) ==
    LET data1 == slice_to(data, Sample_size)
    IN  << dps_call("dp_mean", data1, Epsilon, Delta) >>

\* the mechanism calls show_mean_eps_only makes
show_mean_eps_only(data, Epsilon, Sample_size) ==
    LET data1 == slice_to(data, Sample_size)
    IN  << dps_call("dp_mean", data1, Epsilon, 0),
           dps_call("dp_mean", slice_to(data1, 0 - 1), Epsilon, 0) >>

\* the mechanism calls show_variance makes
show_variance(data, Epsilon, Delta, Sample_size) ==
    LET data1 == slice_to(data, Sample_size)
    IN  << dps_call("dp_var", data1, Epsilon, Delta) >>

show_mean_interact(Epsilon, Delta, Sample_size) ==
    show_mean(data_normal, Epsilon, Delta, Sample_size)

show_mean_interact_eps(Epsilon, Sample_size) ==
    show_mean_eps_only(data_normal, Epsilon, Sample_size)

\* the lambda passes the literals 1.0, 0.1 and 100, not its arguments
show_variance_interact(Epsilon, Delta, Sample_size) ==
    show_variance(data_normal, 100, 10, 100)

\* the cell draws the dataset and clips it before anything else uses it
DemoInit ==
    /\ \E raw \in [1..max_sample_size -> RawValues] :
          data_normal = np_clip(raw, 0, Scale)
    /\ widget = [demo |-> "none"]
    /\ calls = <<>>
    /\ RRIdle
    /\ HistIdle
    /\ ExptIdle

MeanSlider ==
    /\ \E Epsilon \in EpsilonSlider, Delta \in DeltaSlider,
          Sample_size \in SampleSizeSlider :
          /\ widget' = [demo |-> "mean", Epsilon |-> Epsilon, Delta |-> Delta,
                        Sample_size |-> Sample_size]
          /\ calls' = show_mean_interact(Epsilon, Delta, Sample_size)
    /\ UNCHANGED <<data_normal, rr_vars, hist_vars, expt_state>>

MeanEpsSlider ==
    /\ \E Epsilon \in EpsilonSlider, Sample_size \in SampleSizeSlider :
          /\ widget' = [demo |-> "mean_eps", Epsilon |-> Epsilon,
                        Delta |-> 0, Sample_size |-> Sample_size]
          /\ calls' = show_mean_interact_eps(Epsilon, Sample_size)
    /\ UNCHANGED <<data_normal, rr_vars, hist_vars, expt_state>>

VarianceSlider ==
    /\ \E Epsilon \in EpsilonSlider, Delta \in DeltaSlider,
          Sample_size \in SampleSizeSlider :
          /\ widget' = [demo |-> "variance", Epsilon |-> Epsilon,
                        Delta |-> Delta, Sample_size |-> Sample_size]
          /\ calls' = show_variance_interact(Epsilon, Delta, Sample_size)
    /\ UNCHANGED <<data_normal, rr_vars, hist_vars, expt_state>>

DemoNext == MeanSlider \/ MeanEpsSlider \/ VarianceSlider

SpecDemo == DemoInit /\ [][DemoNext]_vars

(***************************************************************************)
(* The experiment cell: a sweep over sample sizes, epsilons and deltas     *)
(***************************************************************************)
\* the lists the cell's author can fill in over a set of values: every
\* list without repetition, the empty one included
ListsOver(S) ==
    UNION {{l \in [1..n -> S] : \A a, b \in 1..n : l[a] = l[b] => a = b} :
              n \in 0..Cardinality(S)}

\* values for the three lists: sample sizes, and epsilons and deltas in
\* hundredths
ExptSampleSizes == {1, max_sample_size}

ExptEpsilons == {1, 100}

ExptDeltas == {1, 10}

\* the draws of the dataset the experiment is explored on
ExptRawValues == {0 - 1, Scale + 1}

\* the values dps.dp_mean(...)[0] can take: a mean plus noise may leave [0,1]
NoisyStats == {[num |-> v, den |-> 1] : v \in {0 - 1, Scale + 1}}

\* the column names of the table
expt_vars == <<"sample_size", "epsilon", "delta", "stat_type", "stat">>

\* the three for loops before their first iteration: no body runs when one
\* of the lists is empty
expt_first_idx ==
    IF sample_size_list = <<>> \/ epsilon_list = <<>> \/ delta_list = <<>>
    THEN [ss |-> 0, epsilon |-> 0, delta |-> 0]
    ELSE [ss |-> 1, epsilon |-> 1, delta |-> 1]

\* the loops nested the other way round: delta outermost, sample size
\* innermost
expt_next_idx_delta_outer(idx) ==
    IF idx.ss < Len(sample_size_list)
    THEN [idx EXCEPT !.ss = @ + 1]
    ELSE IF idx.epsilon < Len(epsilon_list)
    THEN [idx EXCEPT !.epsilon = @ + 1, !.ss = 1]
    ELSE IF idx.delta < Len(delta_list)
    THEN [ss |-> 1, epsilon |-> 1, delta |-> idx.delta + 1]
    ELSE [ss |-> 0, epsilon |-> 0, delta |-> 0]

\* the three for loops after an iteration: delta innermost, then epsilon,
\* then ss; ss = 0 when all are exhausted
expt_next_idx(idx) ==
    IF idx.delta < Len(delta_list)
    THEN [idx EXCEPT !.delta = @ + 1]
    ELSE IF idx.epsilon < Len(epsilon_list)
    THEN [idx EXCEPT !.epsilon = @ + 1, !.delta = 1]
    ELSE IF idx.ss < Len(sample_size_list)
    THEN [ss |-> idx.ss + 1, epsilon |-> 1, delta |-> 1]
    ELSE [ss |-> 0, epsilon |-> 0, delta |-> 0]

ExptInit ==
    /\ \E raw \in [1..max_sample_size -> ExptRawValues] :
          data_normal = np_clip(raw, 0, Scale)
    /\ widget = [demo |-> "none"]
    /\ calls = <<>>
    /\ sample_size_list \in ListsOver(ExptSampleSizes)
    /\ epsilon_list \in ListsOver(ExptEpsilons)
    /\ delta_list \in ListsOver(ExptDeltas)
    /\ expt_result = <<>>
    /\ expt_idx = [ss |-> 0, epsilon |-> 0, delta |-> 0]
    /\ expt_pc = "for"
    /\ mean_dp_exp_df = [columns |-> <<>>, data |-> <<>>]
    /\ RRIdle
    /\ HistIdle

\* the for statements are entered
ExptFor ==
    /\ expt_pc = "for"
    /\ expt_idx' = expt_first_idx
    /\ expt_pc' = IF expt_first_idx.ss = 0 THEN "frame" ELSE "true_mean"
    /\ UNCHANGED <<sample_size_list, epsilon_list, delta_list, expt_result,
                   mean_dp_exp_df, rr_vars, demo_vars, hist_vars>>

\* first half of the loop body (lines 221-223)
ExptTrueMean ==
    /\ expt_pc = "true_mean"
    /\ LET ss == sample_size_list[expt_idx.ss]
           epsilon == epsilon_list[expt_idx.epsilon]
           delta == delta_list[expt_idx.delta]
           data == slice_to(data_normal, ss)
           mean_control == np_mean(data)
       IN  expt_result' = Append(expt_result,
                                 <<ss, epsilon, delta, "true_mean",
                                   mean_control>>)
    /\ expt_pc' = "dp_mean"
    /\ UNCHANGED <<sample_size_list, epsilon_list, delta_list, expt_idx,
                   mean_dp_exp_df, rr_vars, demo_vars, hist_vars>>

\* second half of the loop body (lines 225-226) and the loops' next step
ExptDpMean ==
    /\ expt_pc = "dp_mean"
    /\ \E mean_dp_0 \in NoisyStats :
          LET ss == sample_size_list[expt_idx.ss]
              epsilon == epsilon_list[expt_idx.epsilon]
              delta == delta_list[expt_idx.delta]
          IN  expt_result' = Append(expt_result,
                                    <<ss, epsilon, delta, "dp_mean",
                                      mean_dp_0>>)
    /\ expt_idx' = expt_next_idx(expt_idx)
    /\ expt_pc' = IF expt_next_idx(expt_idx).ss = 0 THEN "frame"
                  ELSE "true_mean"
    /\ UNCHANGED <<sample_size_list, epsilon_list, delta_list,
                   mean_dp_exp_df, rr_vars, demo_vars, hist_vars>>

\* mean_dp_exp_df = pd.DataFrame(data = expt_result, columns = expt_vars)
ExptDataFrame ==
    /\ expt_pc = "frame"
    /\ mean_dp_exp_df' = [columns |-> expt_vars, data |-> expt_result]
    /\ expt_pc' = "done"
    /\ UNCHANGED <<sample_size_list, epsilon_list, delta_list, expt_result,
                   expt_idx, rr_vars, demo_vars, hist_vars>>

ExptNext == ExptFor \/ ExptTrueMean \/ ExptDpMean \/ ExptDataFrame

SpecExpt == ExptInit /\ [][ExptNext]_vars

(***************************************************************************)
(* Histogram demo: plthist                                                 *)
(***************************************************************************)
\* a bug in the clip: the sign is dropped instead of the value
np_clip_min_abs(a, min) ==
    [j \in 1..Len(a) |-> IF a[j] < min THEN 0 - a[j] ELSE a[j]]

\* ndarray.clip(min = ...)
np_clip_min(a, min) ==
    [j \in 1..Len(a) |-> Max(a[j], min)]

\* what dps.dp_hist(data_, num_bins, ...) can return: num_bins noisy counts,
\* negative ones included, and num_bins + 1 increasing bin edges
NoisyCounts == [1..num_bins -> (0 - MaxNoisy)..MaxNoisy]

BinEdges ==
    {e \in [1..(num_bins + 1) -> 0..(num_bins + 1)] :
        \A j \in 1..num_bins : e[j] < e[j + 1]}

HistInit ==
    /\ hist_pc = "idle"
    /\ mech = [counts |-> <<>>, edges |-> <<>>]
    /\ dp_hist_counts = <<>>
    /\ bin_edges = <<>>
    /\ bin_edges_ = <<>>
    /\ width_ = <<>>
    /\ RRIdle
    /\ DemoIdle
    /\ ExptIdle

\* a slider callback starts plthist: the data are drawn and the mechanism
\* returns (line 357)
plthist_dp_hist ==
    /\ hist_pc = "idle"
    /\ \E counts \in NoisyCounts, edges \in BinEdges :
          /\ mech' = [counts |-> counts, edges |-> edges]
          /\ dp_hist_counts' = counts
          /\ bin_edges' = edges
    /\ bin_edges_' = <<>>
    /\ width_' = <<>>
    /\ hist_pc' = "clip"
    /\ UNCHANGED <<rr_vars, demo_vars, expt_state>>

\* dp_hist_counts = dp_hist_counts.clip(min = 0)
plthist_clip ==
    /\ hist_pc = "clip"
    /\ dp_hist_counts' = np_clip_min(dp_hist_counts, 0)
    /\ hist_pc' = "left_edges"
    /\ UNCHANGED <<mech, bin_edges, bin_edges_, width_, rr_vars, demo_vars,
                   expt_state>>

\* the left edges taken without the slice: bin_edges_ = bin_edges
plthist_left_edges_unsliced ==
    /\ hist_pc = "left_edges"
    /\ bin_edges_' = bin_edges
    /\ width_' = <<>>
    /\ hist_pc' = "width"
    /\ UNCHANGED <<mech, dp_hist_counts, bin_edges, rr_vars, demo_vars,
                   expt_state>>

\* bin_edges_ = bin_edges[:len(dp_hist_counts)]; width_ = []
plthist_left_edges ==
    /\ hist_pc = "left_edges"
    /\ bin_edges_' = slice_to(bin_edges, Len(dp_hist_counts))
    /\ width_' = <<>>
    /\ hist_pc' = "width"
    /\ UNCHANGED <<mech, dp_hist_counts, bin_edges, rr_vars, demo_vars,
                   expt_state>>

\* one iteration of for i in range(len(bin_edges) - 1)
plthist_width ==
    /\ hist_pc = "width"
    /\ Len(width_) < Len(bin_edges) - 1
    /\ LET i == Len(width_)
           app == bin_edges[i + 2] - bin_edges[i + 1]
       IN  width_' = Append(width_, app)
    /\ UNCHANGED <<hist_pc, mech, dp_hist_counts, bin_edges, bin_edges_,
                   rr_vars, demo_vars, expt_state>>

\* the loop is exhausted; axs[1].bar(bin_edges_, dp_hist_counts, width_)
plthist_bar ==
    /\ hist_pc = "width"
    /\ Len(width_) >= Len(bin_edges) - 1
    /\ hist_pc' = "bar"
    /\ UNCHANGED <<mech, dp_hist_counts, bin_edges, bin_edges_, width_,
                   rr_vars, demo_vars, expt_state>>

\* plthist returns and its locals are gone
plthist_return ==
    /\ hist_pc = "bar"
    /\ hist_pc' = "idle"
    /\ mech' = [counts |-> <<>>, edges |-> <<>>]
    /\ dp_hist_counts' = <<>>
    /\ bin_edges' = <<>>
    /\ bin_edges_' = <<>>
    /\ width_' = <<>>
    /\ UNCHANGED <<rr_vars, demo_vars, expt_state>>

HistNext ==
    \/ plthist_dp_hist
    \/ plthist_clip
    \/ plthist_left_edges
    \/ plthist_width
    \/ plthist_bar
    \/ plthist_return

SpecHist == HistInit /\ [][HistNext]_vars

(***************************************************************************)
(* Rational arithmetic on fractions [num, den] with den > 0                *)
(***************************************************************************)
Frac(a, b) == [num |-> a, den |-> b]

FracEq(x, y) == x.num * y.den = y.num * x.den

FracSub(x, y) == Frac(x.num * y.den - y.num * x.den, x.den * y.den)

FracMul(x, y) == Frac(x.num * y.num, x.den * y.den)

FracDiv(x, y) == Frac(x.num * y.den, x.den * y.num)

\* the debiasing formula of the aggregate-estimation contract
estimated_true_proportion(observed, p_forced, p_value, p_truthful) ==
    FracDiv(FracSub(observed, FracMul(p_forced, p_value)), p_truthful)

\* expected observed proportion of True over all coin vectors
ExpectedObserved(answers) ==
    Frac(TotalTrue(answers), Len(answers) * Pow(2, Len(answers)))

ExpectedObserved2flip(answers) ==
    Frac(TotalTrue2flip(answers), Len(answers) * Pow(4, Len(answers)))

\* the responses one respondent can give
Reach(truth) == {survey_rr_true(truth, c) : c \in coin_faces}

\* the response vectors one population can give
AllResponses(answers) ==
    {survey_all(answers, cv) : cv \in CoinVectors(Len(answers))}

\* the orders in which n respondents can be surveyed
SurveyOrders(n) ==
    {p \in [1..n -> 1..n] : \A a, b \in 1..n : p[a] = p[b] => a = b}

\* the response vectors when the respondents are surveyed in the order p,
\* each response put back at its respondent's place
AllResponsesInOrder(answers, p) ==
    LET n == Len(answers)
        permuted == [j \in 1..n |-> answers[p[j]]]
    IN  {[i \in 1..n |-> LET r == survey_all(permuted, cv)
                             j == CHOOSE j \in 1..n : p[j] = i
                         IN  r[j]] : cv \in CoinVectors(n)}

\* the survey cell is about to survey its first respondent; answers_true is
\* what the population-level statements are about, and it is fixed from here
SurveyStarts == rr_pc = "survey" /\ answers_survey_rr_true = <<>>

(***************************************************************************)
(* Claims                                                                  *)
(***************************************************************************)
\* C1: survey_rr_true draws one coin per call and returns the true answer
\* when the coin is 0 and True when it is 1; so every response is in
\* {truth, True}, a true answer True is never reported False, and a true
\* answer False can be reported as False or as True.
C1_SurveyRRTrue ==
    /\ Len(coins) = Len(answers_survey_rr_true)
    /\ \A j \in 1..Len(answers_survey_rr_true) :
          LET truth == answers_true[j]
              r == answers_survey_rr_true[j]
          IN  /\ coins[j] = 0 => r = truth
              /\ coins[j] = 1 => r = True
              /\ r \in {truth, True}
              /\ truth = True => r # False
    /\ \E c \in coin_faces : survey_rr_true(False, c) = False
    /\ \E c \in coin_faces : survey_rr_true(False, c) = True

C1_Witness ==
    \E j, k, m \in 1..Len(answers_survey_rr_true) :
        /\ answers_true[j] = False /\ coins[j] = 0
        /\ answers_survey_rr_true[j] = False
        /\ answers_true[k] = False /\ coins[k] = 1
        /\ answers_survey_rr_true[k] = True
        /\ answers_true[m] = True /\ coins[m] = 1
        /\ answers_survey_rr_true[m] = True

\* C2: over all 2^n equally likely coin vectors the always-true survey of a
\* population of n respondents, k of them truly True, gives 2^(n-1)*(k+n)
\* True responses in total, i.e. an expected observed proportion of
\* 0.5*(k/n) + 0.5 (a true rate of 0.2 gives 0.6); the proportion a run
\* observes is the one of its coin vector.
C2_ExpectedObserved ==
    LET n == Len(answers_true)
        k == NumTrue(answers_true)
    IN  /\ SurveyStarts =>
              /\ TotalTrue(answers_true) = Pow(2, n - 1) * (k + n)
              /\ FracEq(ExpectedObserved(answers_true), Frac(k + n, 2 * n))
              /\ 5 * k = n =>
                    FracEq(ExpectedObserved(answers_true), Frac(6, 10))
        /\ rr_pc = "done" =>
              rr_mean = np_mean(np_asarray(survey_all(answers_true, coins)))

C2_Witness ==
    /\ rr_pc = "done"
    /\ Len(answers_true) = 4
    /\ NumTrue(answers_true) = 1
    /\ rr_mean = Frac(3, 4)

\* C3: the debiasing formula (observed - P(forced)*P(forced value)) /
\* P(truthful), applied to the exact expected observed proportion, gives the
\* true proportion k/n for both protocols; it is 2*observed - 1 for
\* survey_rr_true and 2*observed - 1/2 for survey_rr_2flip.
C3_Debias ==
    LET n == Len(answers_true)
        k == NumTrue(answers_true)
        half == Frac(1, 2)
        one == Frac(1, 1)
        obs1 == ExpectedObserved(answers_true)
        obs2 == ExpectedObserved2flip(answers_true)
        est1 == estimated_true_proportion(obs1, half, one, half)
        est2 == estimated_true_proportion(obs2, half, half, half)
    IN  SurveyStarts =>
            /\ FracEq(est1, Frac(k, n))
            /\ FracEq(est1, FracSub(FracMul(Frac(2, 1), obs1), one))
            /\ FracEq(est2, Frac(k, n))
            /\ FracEq(est2, FracSub(FracMul(Frac(2, 1), obs2), half))

C3_Witness ==
    /\ rr_pc = "done"
    /\ calls_2flip # <<>>
    /\ Len(answers_true) = 3
    /\ NumTrue(answers_true) = 2
    /\ FracEq(ExpectedObserved(answers_true), Frac(5, 6))
    /\ FracEq(ExpectedObserved2flip(answers_true), Frac(7, 12))

\* C4: both protocols return a single boolean, a member of {True, False},
\* never a value of another type such as the integers 0 or 1.
C4_ReturnsBoolean ==
    /\ \A j \in 1..Len(answers_survey_rr_true) :
          answers_survey_rr_true[j] \in {True, False}
    /\ \A j \in 1..Len(calls_2flip) : calls_2flip[j].ret \in {True, False}

\* C5: the survey leaves answers_true unchanged; each step appends one
\* response that is among those the surveyed respondent's own true answer
\* allows and touches no earlier response; the response vectors of a
\* population are exactly the product of the per-respondent response sets,
\* in whatever order the respondents are surveyed.
C5_Memoryless ==
    /\ [][/\ answers_true' = answers_true
          /\ answers_survey_rr_true' # answers_survey_rr_true =>
                LET m == Len(answers_survey_rr_true)
                IN  /\ Len(answers_survey_rr_true') = m + 1
                    /\ SubSeq(answers_survey_rr_true', 1, m) =
                          answers_survey_rr_true
                    /\ answers_survey_rr_true'[m + 1] \in
                          Reach(answers_true[m + 1])]_vars
    /\ [](LET n == Len(answers_true)
              Product == {r \in [1..n -> {True, False}] :
                             \A j \in 1..n : r[j] \in Reach(answers_true[j])}
          IN  /\ SurveyStarts =>
                    /\ AllResponses(answers_true) = Product
                    /\ \A p \in SurveyOrders(n) :
                          AllResponsesInOrder(answers_true, p) = Product
              /\ rr_pc # "survey" =>
                    answers_survey_rr_true = survey_all(answers_true, coins))

C5_Witness ==
    /\ rr_pc = "done"
    /\ Len(answers_true) = 3
    /\ answers_true = <<True, False, False>>
    /\ answers_survey_rr_true = <<True, False, True>>

\* C7: every sample the mean and variance demos pass to dps.dp_mean or
\* dps.dp_var has all its values inside [0,1], for every slider setting;
\* the dataset itself is inside [0,1] from the clip on.
C7_SamplesBounded ==
    /\ \A j \in 1..Len(data_normal) :
          data_normal[j] >= 0 /\ data_normal[j] <= Scale
    /\ \A c \in 1..Len(calls) :
          \A j \in 1..Len(calls[c].data) :
              calls[c].data[j] >= 0 /\ calls[c].data[j] <= Scale

C7_Witness ==
    /\ widget.demo = "mean_eps"
    /\ Len(calls) = 2
    /\ Len(calls[1].data) = max_sample_size
    /\ Len(calls[2].data) = max_sample_size - 1
    /\ calls[1].data[1] = 0
    /\ calls[1].data[2] = Scale

\* C8: for every sample of n >= 1 values in [0,1] handed to the mean
\* mechanism, replacing one entry by another value in [0,1] changes the
\* sample mean by at most 1/n, and replacing an entry 0 by 1 changes it by
\* exactly 1/n.
C8_MeanSensitivity ==
    \A c \in 1..Len(calls) :
        LET data == calls[c].data
            n == Len(data)
        IN  (calls[c].fn = "dp_mean" /\ n >= 1) =>
                \A i \in 1..n, v \in 0..Scale :
                    LET data2 == [data EXCEPT ![i] = v]
                        d == FracSub(np_mean(data2), np_mean(data))
                        diff == Frac(IF d.num < 0 THEN 0 - d.num ELSE d.num,
                                     d.den * Scale)
                    IN  /\ diff.num * n <= diff.den
                        /\ (data[i] = 0 /\ v = Scale) =>
                              FracEq(diff, Frac(1, n))

C8_Witness ==
    /\ widget.demo = "mean"
    /\ Len(calls) = 1
    /\ Len(calls[1].data) = max_sample_size
    /\ calls[1].data[1] = 0
    /\ calls[1].data[2] = Scale

\* C9: for every slider setting the variance callback calls dps.dp_var on
\* the first Sample_size entries of data_normal with the slider's Epsilon
\* and Delta.
C9_VarianceUsesSliders ==
    widget.demo = "variance" =>
        calls = << dps_call("dp_var", slice_to(data_normal, widget.Sample_size),
                            widget.Epsilon, widget.Delta) >>

\* C10: the clip of the noisy counts comes after the mechanism has returned;
\* from then on every displayed count is >= 0, a count that was >= 0 is
\* unchanged, a negative count is 0, and the number of bins and the bin
\* edges are the ones the mechanism returned.
C10_ClipDisplayOnly ==
    /\ hist_pc = "clip" =>
          dp_hist_counts = mech.counts /\ bin_edges = mech.edges
    /\ hist_pc \in {"left_edges", "width", "bar"} =>
          /\ Len(dp_hist_counts) = Len(mech.counts)
          /\ \A j \in 1..Len(dp_hist_counts) :
                /\ dp_hist_counts[j] >= 0
                /\ mech.counts[j] >= 0 => dp_hist_counts[j] = mech.counts[j]
                /\ mech.counts[j] < 0 => dp_hist_counts[j] = 0
          /\ bin_edges = mech.edges
          /\ Len(bin_edges) = Len(mech.counts) + 1

C10_Witness ==
    /\ hist_pc = "bar"
    /\ mech.counts[1] < 0
    /\ mech.counts[2] > 0
    /\ dp_hist_counts[1] = 0
    /\ dp_hist_counts[2] = mech.counts[2]

\* iterations the experiment's loops make in all
ExptTotal == Len(sample_size_list) * Len(epsilon_list) * Len(delta_list)

\* steps the experiment cell still has to make
ExptRemaining ==
    (2 * ExptTotal - Len(expt_result))
        + (IF expt_pc = "for" THEN 2 ELSE IF expt_pc = "done" THEN 0 ELSE 1)

\* C11: the sweep terminates (every step of the cell lowers the number of
\* steps left, which is never negative) and yields a table of exactly
\* 2*|sample_size_list|*|epsilon_list|*|delta_list| rows (sample_size,
\* epsilon, delta, stat_type, stat): rows come in consecutive pairs for the
\* same triple, 'true_mean' first and 'dp_mean' second, the pairs in
\* nested-loop order (sample size outermost, delta innermost), and a
\* true_mean value is the mean of the first sample_size entries of
\* data_normal, the same for all rows of that sample size.
C11_ExperimentTable ==
    /\ [][ExptRemaining' < ExptRemaining]_vars
    /\ [](LET nE == Len(epsilon_list)
              nD == Len(delta_list)
          IN  /\ ExptRemaining >= 0
              /\ Len(expt_result) <= 2 * ExptTotal
              /\ \A r \in 1..Len(expt_result) :
                    LET row == expt_result[r]
                        c == (r - 1) \div 2
                        i == (c \div (nE * nD)) + 1
                        j == ((c \div nD) % nE) + 1
                        k == (c % nD) + 1
                    IN  /\ Len(row) = 5
                        /\ row[1] = sample_size_list[i]
                        /\ row[2] = epsilon_list[j]
                        /\ row[3] = delta_list[k]
                        /\ row[4] = IF r % 2 = 1 THEN "true_mean" ELSE "dp_mean"
                        /\ r % 2 = 1 =>
                              row[5] = np_mean(slice_to(data_normal, row[1]))
              /\ expt_pc = "done" =>
                    /\ mean_dp_exp_df.columns = expt_vars
                    /\ mean_dp_exp_df.data = expt_result
                    /\ Len(mean_dp_exp_df.data) = 2 * ExptTotal
                    /\ LET table == mean_dp_exp_df.data
                           true_rows == {r \in 1..Len(table) :
                                            table[r][4] = "true_mean"}
                       IN  \A r1, r2 \in true_rows :
                               table[r1][1] = table[r2][1]
                                   => table[r1][5] = table[r2][5])

C11_Witness ==
    /\ expt_pc = "done"
    /\ sample_size_list = <<max_sample_size, 1>>
    /\ epsilon_list = <<1, 100>>
    /\ delta_list = <<10, 1>>
    /\ Len(mean_dp_exp_df.data) = 16
    /\ mean_dp_exp_df.data[3][3] = 1
    /\ mean_dp_exp_df.data[5][2] = 100
    /\ mean_dp_exp_df.data[9][1] = 1
    /\ mean_dp_exp_df.data[1][5] # mean_dp_exp_df.data[9][5]

\* C12: in the mean demo and the leave-one-out mean demo every call of
\* dps.dp_mean receives a non-empty sample, for every slider setting, the
\* call on data[:-1] included.
C12_MeanSamplesNonEmpty ==
    widget.demo \in {"mean", "mean_eps"} =>
        \A c \in 1..Len(calls) :
            calls[c].fn = "dp_mean" => Len(calls[c].data) >= 1

\* C13: with num_bins counts and num_bins + 1 increasing edges returned,
\* the bar plot gets three aligned sequences: bin_edges_, the clipped counts
\* and width_ have num_bins entries each, bin_edges_[i] = bin_edges[i] and
\* width_[i] = bin_edges[i+1] - bin_edges[i] > 0; the width loop adds one
\* entry per iteration and ends after num_bins iterations.
C13_BarsAligned ==
    /\ [][hist_pc = "width" /\ hist_pc' = "width" =>
             /\ Len(width_') = Len(width_) + 1
             /\ Len(width_') <= num_bins]_vars
    /\ [](/\ hist_pc = "width" =>
                /\ Len(width_) <= num_bins
                /\ \A i \in 1..Len(width_) :
                      width_[i] = bin_edges[i + 1] - bin_edges[i]
          /\ hist_pc = "bar" =>
                /\ Len(bin_edges_) = num_bins
                /\ Len(dp_hist_counts) = num_bins
                /\ Len(width_) = num_bins
                /\ \A i \in 1..num_bins :
                      /\ bin_edges_[i] = bin_edges[i]
                      /\ width_[i] = bin_edges[i + 1] - bin_edges[i]
                      /\ width_[i] > 0
                      /\ bin_edges_[i] + width_[i] = bin_edges[i + 1])

C13_Witness ==
    /\ hist_pc = "bar"
    /\ Len(width_) = num_bins
    /\ width_[1] = 2
    /\ width_[2] = 1
    /\ bin_edges_[1] = 0
    /\ bin_edges_[num_bins] = num_bins

====
